---- MODULE Spec2Model ----
(***************************************************************************)
(* A model of the UniFi SDK's IP-organization engine (IPOrganizer), of the *)
(* CLI command that drives it, and of UniFiSDK.applyOptimizations.         *)
(*                                                                         *)
(* Strings are TLA+ strings and the JavaScript string operations the code  *)
(* uses (toLowerCase, includes, startsWith, substring) are computed on     *)
(* them character by character.  An IPv4 address is the tuple of its four  *)
(* dotted fields, so `10.0.0.${n}` is <<10, 0, 0, n>>.                      *)
(***************************************************************************)
EXTENDS Integers, Sequences, FiniteSets, TLC

VARIABLES
    op,            \* the operation invoked: "none", "organize", "cli", "apply"
    pc,            \* where the running operation stands
    clients,       \* organizeDevicesByType: the clients argument
    dryRun,        \* the dryRun argument / options.dryRun
    idx,           \* index of the client (recommendation) the loop is at
    devices,       \* IPOrganizer.devices, the cached device list
    ipCounters,    \* the ipCounters object of the running pass
    organized,     \* organized: category -> list of EnhancedDeviceInfo
    unclassified,  \* unclassified: list of EnhancedDeviceInfo
    commits,       \* PUT rest/user/<mac> requests issued, in order
    reservations,  \* the PUT requests the controller accepted
    error,         \* what the operation threw, "none" while it has not
    cliDryRun,     \* cli organize: process.argv.includes('--dry-run')
    cliOutput,     \* cli organize: the closing message printed
    localConfigured, \* UniFiSDK.local !== undefined
    recs,          \* applyOptimizations: the recommendations argument
    results,       \* applyOptimizations: the results array
    writes,        \* Local API write operations invoked, in order
    report,        \* the OrganizationReport the last finished pass returned
    prevReport,    \* the report of the pass before it on the same IPOrganizer
    passes,        \* organizeDevicesByType calls made on the IPOrganizer
    cloudConfigured, \* UniFiSDK.cloud !== undefined
    overview,      \* what getNetworkOverview returned
    analysis,      \* what analyzeNetwork returned
    session,       \* UniFiLocalAPI: cookie, csrfToken and the call in progress
    running        \* the locals of two organizeDevicesByType calls in progress

vars == <<op, pc, clients, dryRun, idx, devices, ipCounters, organized,
          unclassified, commits, reservations, error, cliDryRun, cliOutput,
          localConfigured, recs, results, writes, report, prevReport, passes,
          cloudConfigured, overview, analysis, session, running>>

reportVars == <<report, prevReport, passes>>
organizerVars == <<clients, devices, ipCounters, organized, unclassified,
                   commits, reservations, reportVars>>
cliVars == <<cliDryRun, cliOutput>>
applyVars == <<localConfigured, recs, results, writes>>
sdkVars == <<cloudConfigured, overview, analysis>>
sessionVars == <<session>>
concurrentVars == <<running>>

-----------------------------------------------------------------------------
(* Bounds of the model.                                                    *)

\* Longest list of distinct sample clients given to a pass.
MaxShort == 2
\* Length of the run of same-category clients that opens a long list.
MaxRun == 51
\* Longest list of recommendations given to applyOptimizations.
MaxRecs == 3
\* Most organizeDevicesByType calls made on one IPOrganizer.
MaxPasses == 2
\* Most WAN links of a site that report a high-latency issue.
MaxWans == 11
\* Most sends of one request call that are followed, and most logins of one
\* client.
MaxSends == 3
MaxLogins == 4
\* Longest list given to each of two interleaved organizeDevicesByType calls.
MaxInterleaved == 2

-----------------------------------------------------------------------------
(* JavaScript values and string operations.                                *)

\* The value of a property that is absent from a record (JS undefined).
Undefined == "<undefined>"

UpperChars == "ABCDEFGHIJKLMNOPQRSTUVWXYZ"
LowerChars == "abcdefghijklmnopqrstuvwxyz"

CharAt(s, i) == SubSeq(s, i, i)

toLowerChar(c) ==
    IF \E i \in 1..Len(UpperChars) : CharAt(UpperChars, i) = c
    THEN CharAt(LowerChars, CHOOSE i \in 1..Len(UpperChars) : CharAt(UpperChars, i) = c)
    ELSE c

RECURSIVE toLowerCase(_)
toLowerCase(s) ==
    IF s = "" THEN ""
    ELSE toLowerChar(CharAt(s, 1)) \o toLowerCase(SubSeq(s, 2, Len(s)))

includes(s, k) ==
    \E i \in 0..(Len(s) - Len(k)) : SubSeq(s, i + 1, i + Len(k)) = k

startsWith(s, p) == Len(s) >= Len(p) /\ SubSeq(s, 1, Len(p)) = p

\* s.substring(0, n)
substring0(s, n) == SubSeq(s, 1, IF Len(s) < n THEN Len(s) ELSE n)

\* a || b on strings: the empty string and undefined are falsy.
OrElse(a, b) == IF a = "" \/ a = Undefined THEN b ELSE a

-----------------------------------------------------------------------------
(* The IP scheme and IPv4 arithmetic.                                      *)

\* PERFORMANCE_OPTIMIZED_SCHEME: each range string 'a.b.c.d - e.f.g.h' is
\* written as its two addresses.
PERFORMANCE_OPTIMIZED_SCHEME ==
    << [name |-> "Infrastructure",     start |-> <<10, 0, 0, 1>>,   end |-> <<10, 0, 0, 50>>],
       [name |-> "Servers",            start |-> <<10, 0, 0, 51>>,  end |-> <<10, 0, 0, 100>>],
       [name |-> "Computers",          start |-> <<10, 0, 0, 101>>, end |-> <<10, 0, 0, 150>>],
       [name |-> "Laptops & Tablets",  start |-> <<10, 0, 0, 151>>, end |-> <<10, 0, 0, 200>>],
       [name |-> "Phones & Watches",   start |-> <<10, 0, 0, 201>>, end |-> <<10, 0, 0, 250>>],
       [name |-> "Media Devices",      start |-> <<10, 0, 1, 1>>,   end |-> <<10, 0, 1, 100>>],
       [name |-> "IoT - Smart Home",   start |-> <<10, 0, 2, 1>>,   end |-> <<10, 0, 2, 100>>],
       [name |-> "IoT - Appliances",   start |-> <<10, 0, 3, 1>>,   end |-> <<10, 0, 3, 100>>],
       [name |-> "Security & Cameras", start |-> <<10, 0, 4, 1>>,   end |-> <<10, 0, 4, 100>>],
       [name |-> "Guest Devices",      start |-> <<10, 0, 5, 1>>,   end |-> <<10, 0, 5, 254>>] >>

SchemeNames == { PERFORMANCE_OPTIMIZED_SCHEME[i].name : i \in DOMAIN PERFORMANCE_OPTIMIZED_SCHEME }

SchemeOf(category) ==
    PERFORMANCE_OPTIMIZED_SCHEME[CHOOSE i \in DOMAIN PERFORMANCE_OPTIMIZED_SCHEME :
                                     PERFORMANCE_OPTIMIZED_SCHEME[i].name = category]

\* (p[0] << 24) + (p[1] << 16) + (p[2] << 8) + p[3]
ipToNum(p) == p[1] * 16777216 + p[2] * 65536 + p[3] * 256 + p[4]

\* [(num >>> 24) & 0xff, (num >>> 16) & 0xff, (num >>> 8) & 0xff, num & 0xff]
numToIp(num) ==
    << (num \div 16777216) % 256, (num \div 65536) % 256, (num \div 256) % 256, num % 256 >>

\* The categories that have an ipCounters entry.
Categories ==
    { "Infrastructure", "Servers", "Computers", "Laptops & Tablets", "Phones & Watches",
      "Media Devices", "IoT - Smart Home", "IoT - Appliances", "Security & Cameras" }

\* const ipCounters = { 'Infrastructure': 1, 'Servers': 51, ... }
InitialIpCounters ==
    [c \in Categories |->
        CASE c = "Infrastructure"    -> 1
          [] c = "Servers"           -> 51
          [] c = "Computers"         -> 101
          [] c = "Laptops & Tablets" -> 151
          [] c = "Phones & Watches"  -> 201
          [] OTHER                   -> 1]

\* The switch on type: the address built from the category's counter.  A
\* type outside the switch has no address (the default branch).
NoIp == <<>>
AssignedIpFor(type, counter) ==
    CASE type \in { "Infrastructure", "Servers", "Computers",
                    "Laptops & Tablets", "Phones & Watches" } -> <<10, 0, 0, counter>>
      [] type = "Media Devices"      -> <<10, 0, 1, counter>>
      [] type = "IoT - Smart Home"   -> <<10, 0, 2, counter>>
      [] type = "IoT - Appliances"   -> <<10, 0, 3, counter>>
      [] type = "Security & Cameras" -> <<10, 0, 4, counter>>
      [] OTHER                       -> NoIp

-----------------------------------------------------------------------------
(* Classification.                                                         *)

null == [type |-> "null", priority |-> 0]

anyIncludes(s, keywords) == \E k \in keywords : includes(s, k)
anyStartsWith(s, prefixes) == \E p \in prefixes : startsWith(s, p)

\* classifyDevice, first part: the OS-based rules.
classifyByOs(client) ==
    LET osName == toLowerCase(OrElse(client.os_name, ""))
        deviceName == toLowerCase(OrElse(client.device_name, ""))
    IN  IF includes(osName, "ios") THEN
            IF includes(deviceName, "ipad")
            THEN [type |-> "Laptops & Tablets", priority |-> 95]
            ELSE [type |-> "Phones & Watches", priority |-> 95]
        ELSE IF includes(osName, "macos") THEN
            IF includes(deviceName, "macbook")
            THEN [type |-> "Laptops & Tablets", priority |-> 95]
            ELSE [type |-> "Computers", priority |-> 95]
        ELSE IF includes(osName, "android") THEN
            [type |-> "Phones & Watches", priority |-> 95]
        ELSE null

\* One name/MAC rule of classifyDevice: the keywords tested with
\* name.includes, the names tested with ===, the prefixes tested with
\* mac.startsWith, and the { type, priority } returned.
Rule(type, priority, keywords, exact, prefixes) ==
    [ type |-> type, priority |-> priority, keywords |-> keywords, exact |-> exact,
      prefixes |-> prefixes ]

InfrastructureRule ==
    Rule("Infrastructure", 100, {"switch", "ap-", "udm", "unifi"}, {}, {})

ServersRule ==
    Rule("Servers", 90,
         {"nas", "truenas", "server", "plex", "home assistant", "homeassistant",
          "pihole", "pi-hole"},
         {}, {"20:f8:3b"})

ComputersRule ==
    Rule("Computers", 80, {"desktop", "pc-", "imac", "mac-pro", "workstation"}, {"mac"}, {})

LaptopsRule ==
    Rule("Laptops & Tablets", 75, {"macbook", "laptop", "ipad", "surface", "chromebook"}, {}, {})

PhonesRule ==
    Rule("Phones & Watches", 70, {"iphone", "phone", "android", "watch", "pillow"}, {},
         {"b2:c1:dd", "04:99:b9"})

MediaRule ==
    Rule("Media Devices", 65,
         {"appletv", "apple-tv", "roku", "tv", "sonos", "playstation", "xbox",
          "chromecast", "shield"},
         {}, {"90:09:d0"})

SecurityRule ==
    Rule("Security & Cameras", 85,
         {"ring", "camera", "doorbell", "nvr", "myq", "spotlight"}, {},
         {"ac:9f:c3", "0c:95:05"})

SmartHomeRule ==
    Rule("IoT - Smart Home", 60,
         {"hue", "nest", "ecobee", "homekit", "ac-controller", "bedroom", "office",
          "garage", "master-bathroom", "living"},
         {},
         {"d8:bf:c0", "80:7d:3a", "e0:2b:96", "d4:90:9c", "ac:bc:b5", "c4:29:96", "18:b4:30"})

AppliancesRule ==
    Rule("IoT - Appliances", 55,
         {"washer", "dryer", "laundry", "fridge", "lg_smart", "sleep number", "sleepnumber"},
         {}, {"1c:39:29", "c8:dd:6a", "64:db:a0"})

GenericIoTRule ==
    Rule("IoT - Smart Home", 50, {"lwip"}, {}, {"5c:47:5e", "b0:09:da", "5a:6c:0b", "cc:6a:10"})

\* The rules with the Servers rule left out.
NameMacRules_WithoutServers ==
    << InfrastructureRule, ComputersRule, LaptopsRule, PhonesRule, MediaRule,
       SecurityRule, SmartHomeRule, AppliancesRule, GenericIoTRule >>

\* The name/MAC rules in the order classifyDevice tests them.
NameMacRules ==
    << InfrastructureRule, ServersRule, ComputersRule, LaptopsRule, PhonesRule, MediaRule,
       SecurityRule, SmartHomeRule, AppliancesRule, GenericIoTRule >>

RuleMatchesName(rule, name) == anyIncludes(name, rule.keywords) \/ name \in rule.exact
RuleMatchesMac(rule, mac) == anyStartsWith(mac, rule.prefixes)

\* const name = (client.name || client.hostname || '').toLowerCase()
DisplayName(client) == toLowerCase(OrElse(client.name, OrElse(client.hostname, "")))

\* classifyDevice, second part: the name-keyword and MAC-prefix rules; the
\* first rule, in the order of the code, whose condition holds returns.
classifyByNameOrMac(client) ==
    LET name == DisplayName(client)
        mac == toLowerCase(client.mac)
        hits == { i \in DOMAIN NameMacRules :
                    RuleMatchesName(NameMacRules[i], name) \/ RuleMatchesMac(NameMacRules[i], mac) }
    IN  IF hits = {}
        THEN null
        ELSE LET first == CHOOSE i \in hits : \A j \in hits : i <= j
             IN  [type |-> NameMacRules[first].type, priority |-> NameMacRules[first].priority]

\* The same rules with the OS-based ones tested last.
classifyDevice_OsLast(client) ==
    IF classifyByNameOrMac(client) # null
    THEN classifyByNameOrMac(client)
    ELSE classifyByOs(client)

\* IPOrganizer.classifyDevice, for a client whose mac is a string (the call
\* throws on client.mac.toLowerCase() otherwise).
classifyDevice(client) ==
    IF classifyByOs(client) # null
    THEN classifyByOs(client)
    ELSE classifyByNameOrMac(client)

\* The lookup without the toLowerCase() of the prefix.
lookupManufacturer_CaseSensitive(mac) ==
    LET prefix == substring0(mac, 8)
    IN  CASE prefix = "5c:47:5e" -> "Xiaomi"
          [] prefix = "ac:9f:c3" -> "Ring (Amazon)"
          [] prefix = "04:99:b9" -> "Eight Sleep"
          [] prefix = "18:b4:30" -> "Google Nest"
          [] prefix \in {"1c:39:29", "c8:dd:6a"} -> "LG Electronics"
          [] prefix = "b0:09:da" -> "TP-Link"
          [] prefix \in {"80:7d:3a", "d8:bf:c0", "ac:bc:b5", "e0:2b:96", "d4:90:9c"} -> "Ecobee"
          [] prefix = "0c:95:05" -> "Chamberlain (MyQ)"
          [] prefix = "c4:29:96" -> "Philips (Hue)"
          [] prefix = "64:db:a0" -> "Sleep Number"
          [] prefix = "20:f8:3b" -> "Raspberry Pi"
          [] prefix = "70:a7:41" -> "Ubiquiti"
          [] prefix = "5a:6c:0b" -> "Private MAC"
          [] prefix \in {"56:de:ac", "b2:c1:dd"} -> "Apple (Private)"
          [] prefix = "cc:6a:10" -> "Generic IoT"
          [] prefix = "00:11:32" -> "Synology"
          [] prefix = "90:09:d0" -> "Sonos"
          [] OTHER -> "Unknown"

\* IPOrganizer.lookupManufacturer
lookupManufacturer(mac) ==
    LET prefix == toLowerCase(substring0(mac, 8))
    IN  CASE prefix = "5c:47:5e" -> "Xiaomi"
          [] prefix = "ac:9f:c3" -> "Ring (Amazon)"
          [] prefix = "04:99:b9" -> "Eight Sleep"
          [] prefix = "18:b4:30" -> "Google Nest"
          [] prefix \in {"1c:39:29", "c8:dd:6a"} -> "LG Electronics"
          [] prefix = "b0:09:da" -> "TP-Link"
          [] prefix \in {"80:7d:3a", "d8:bf:c0", "ac:bc:b5", "e0:2b:96", "d4:90:9c"} -> "Ecobee"
          [] prefix = "0c:95:05" -> "Chamberlain (MyQ)"
          [] prefix = "c4:29:96" -> "Philips (Hue)"
          [] prefix = "64:db:a0" -> "Sleep Number"
          [] prefix = "20:f8:3b" -> "Raspberry Pi"
          [] prefix = "70:a7:41" -> "Ubiquiti"
          [] prefix = "5a:6c:0b" -> "Private MAC"
          [] prefix \in {"56:de:ac", "b2:c1:dd"} -> "Apple (Private)"
          [] prefix = "cc:6a:10" -> "Generic IoT"
          [] prefix = "00:11:32" -> "Synology"
          [] prefix = "90:09:d0" -> "Sonos"
          [] OTHER -> "Unknown"

\* IPOrganizer.getSignalQuality; a signal of 0 stands for an absent one too
\* (both are falsy).
getSignalQuality(signal) ==
    IF signal = 0 THEN "Unknown"
    ELSE IF signal > -50 THEN "Excellent"
    ELSE IF signal > -60 THEN "Good"
    ELSE IF signal > -70 THEN "Fair"
    ELSE "Weak"

\* devices.find(d => d.mac === mac): the first device with that mac, in a
\* sequence of at most one element.
FindDevice(devs, mac) ==
    LET hits == { i \in DOMAIN devs : devs[i].mac = mac }
    IN  IF hits = {} THEN <<>> ELSE << devs[CHOOSE i \in hits : \A j \in hits : i <= j] >>

\* IPOrganizer.getParentDevice; sw_port 0 stands for an absent port (falsy).
getParentDevice(client, devs) ==
    IF client.is_wired
    THEN LET connectedSwitch == FindDevice(devs, client.sw_mac)
         IN  IF connectedSwitch # <<>>
             THEN LET portInfo == IF client.sw_port # 0
                                  THEN " port " \o ToString(client.sw_port) ELSE ""
                      label == OrElse(connectedSwitch[1].name, connectedSwitch[1].model)
                  IN  [name |-> label, device |-> label \o portInfo]
             ELSE [name |-> "Unknown Switch", device |-> "Wired (switch unknown)"]
    ELSE LET ap == FindDevice(devs, client.ap_mac)
             essid == OrElse(client.essid, "Unknown SSID")
         IN  IF ap # <<>>
             THEN LET label == OrElse(ap[1].name, ap[1].model)
                  IN  [name |-> label, device |-> label \o " (" \o essid \o ")"]
             ELSE [name |-> "Unknown AP", device |-> "WiFi (" \o essid \o ")"]

\* The byte counters of a client record are held in KiB; 1024**3 bytes:
GiB == 1048576
\* 86400 * 30 seconds
LongUptime == 2592000

\* hints[manufacturer] || `${manufacturer} device`
ManufacturerHint(manufacturer) ==
    CASE manufacturer = "Ring (Amazon)" -> "Ring security camera or doorbell"
      [] manufacturer = "Eight Sleep" -> "Eight Sleep Pod (mattress tracker)"
      [] manufacturer = "Google Nest" -> "Nest thermostat or camera"
      [] manufacturer = "LG Electronics" -> "LG smart appliance (check laundry room, kitchen)"
      [] manufacturer = "TP-Link" -> "TP-Link smart plug or switch"
      [] manufacturer = "Ecobee" -> "Ecobee smart thermostat"
      [] manufacturer = "Chamberlain (MyQ)" -> "MyQ garage door opener"
      [] manufacturer = "Philips (Hue)" -> "Philips Hue bridge or light"
      [] manufacturer = "Sleep Number" -> "Sleep Number smart bed"
      [] manufacturer = "Raspberry Pi" ->
             "Raspberry Pi (check if running Home Assistant, Pi-hole)"
      [] manufacturer = "Sonos" -> "Sonos speaker"
      [] OTHER -> manufacturer \o " device"

\* identifyUnknownDevice, from the usage hints on: what it returns for a
\* client without OS metadata, device name and known manufacturer.
identifyByUsage(client, parent) ==
    LET totalKiB == client.tx_bytes + client.rx_bytes
    IN  IF totalKiB > 50 * GiB THEN
            "High bandwidth device (computer, NAS, or streaming device)"
        ELSE IF totalKiB * 10 < GiB THEN
            "Low bandwidth device (sensor, smart plug, or rarely used)"
        ELSE IF client.uptime # 0 /\ client.uptime > LongUptime THEN
            "Always-on device (server, infrastructure, or appliance)"
        ELSE IF client.is_wired THEN
            "Wired device on " \o parent \o " (computer, TV, appliance, or infrastructure)"
        ELSE IF client.signal # 0 /\ client.signal > -50 THEN
            "Strong WiFi signal - stationary device near AP (smart home hub, TV, appliance)"
        ELSE "Unknown - check physical location and manufacturer"

\* identifyUnknownDevice, from the MAC-based identification on.
identifyByManufacturer(client, parent) ==
    LET manufacturer == lookupManufacturer(toLowerCase(client.mac))
    IN  IF manufacturer # "Unknown"
        THEN ManufacturerHint(manufacturer)
        ELSE identifyByUsage(client, parent)

\* IPOrganizer.identifyUnknownDevice(client, parent), for a client whose mac
\* is a string.  osName.includes and deviceName.includes are case-sensitive.
identifyUnknownDevice(client, parent) ==
    LET osName == OrElse(client.os_name, "")
        deviceName == OrElse(client.device_name, "")
    IN  IF osName # "" /\ includes(osName, "iOS") THEN
            IF includes(deviceName, "iPad") THEN "iPad (iOS tablet)"
            ELSE IF includes(deviceName, "iPhone") THEN deviceName \o " (smartphone)"
            ELSE "iOS device (iPhone or iPad)"
        ELSE IF osName # "" /\ includes(osName, "macOS") THEN
            IF includes(deviceName, "MacBook") THEN deviceName \o " (laptop)"
            ELSE IF includes(deviceName, "iMac") THEN deviceName \o " (desktop)"
            ELSE "Mac computer"
        ELSE IF osName # "" /\ includes(osName, "Android") THEN
            OrElse(deviceName, "Android smartphone or tablet")
        ELSE IF osName # "" /\ includes(osName, "Windows") THEN "Windows PC"
        ELSE IF osName # "" /\ includes(osName, "Linux") THEN
            "Linux device (server, Raspberry Pi, or IoT)"
        ELSE IF deviceName # "" THEN deviceName
        ELSE identifyByManufacturer(client, parent)

\* IPOrganizer.buildEnhancedDeviceInfo: the fields of EnhancedDeviceInfo that
\* the pass and its summary read.  An unclassified entry is built without
\* assignedIp and classification: NoIp and Undefined.
buildEnhancedDeviceInfo(client, devs, assignedIp, classification) ==
    LET parent == getParentDevice(client, devs)
    IN  [ mac |-> client.mac,
          name |-> OrElse(client.name, "Unnamed"),
          hostname |-> OrElse(client.hostname, "Unknown"),
          currentIp |-> client.ip,
          assignedIp |-> assignedIp,
          classification |-> classification,
          classificationPriority |-> IF classification # Undefined THEN 1 ELSE 0,
          likelyIdentity |-> identifyUnknownDevice(client, parent.device),
          manufacturer |-> lookupManufacturer(client.mac),
          connectionType |-> IF client.is_wired THEN "Wired" ELSE "WiFi",
          parentDevice |-> parent.device,
          parentDeviceName |-> parent.name,
          signalStrength |-> client.signal,
          signalQuality |-> getSignalQuality(client.signal) ]

-----------------------------------------------------------------------------
(* Inputs: client records, client lists, device lists, recommendations.    *)

Client(name, hostname, mac, ip, is_wired) ==
    [ name |-> name, hostname |-> hostname, mac |-> mac, ip |-> ip,
      is_wired |-> is_wired, os_name |-> "", device_name |-> "",
      signal |-> 0, tx_bytes |-> 0, rx_bytes |-> 0, uptime |-> 0,
      sw_mac |-> Undefined, sw_port |-> 0, ap_mac |-> Undefined, essid |-> Undefined ]

WithOs(c, os_name, device_name) ==
    [c EXCEPT !.os_name = os_name, !.device_name = device_name]

\* Sample client records as the controller reports them.
SampleClients ==
    << Client("USW-Switch-24", "usw24", "70:a7:41:00:00:01", "192.168.1.2", TRUE),
       Client("nas-backup", "", "20:f8:3b:aa:bb:cc", "192.168.1.3", TRUE),
       WithOs(Client("Anna's iPhone", "", "AC:9F:C3:11:22:33", "192.168.1.4", FALSE),
              "iOS", "iPhone 14"),
       WithOs(Client("", "mbp", "90:09:d0:00:00:04", "192.168.1.5", FALSE),
              "macOS", "MacBook Pro"),
       WithOs(Client("", "", "20:f8:3b:00:00:05", "192.168.1.6", FALSE),
              "Android", ""),
       WithOs(Client("Studio", "", "04:99:b9:00:00:06", "192.168.1.7", TRUE),
              "macOS", "iMac"),
       [Client("", "esp-1234", "aa:bb:cc:00:00:07", "192.168.1.8", FALSE)
            EXCEPT !.signal = -65],
       Client("ghost", "", Undefined, "192.168.1.9", FALSE),
       Client("Living Room TV", "", "aa:bb:cc:00:00:09", "not-an-ip", TRUE),
       Client("", "", "18:b4:30:00:00:10", "192.168.1.11", FALSE),
       Client("Ring Doorbell", "", "aa:bb:cc:00:00:11", "192.168.1.12", FALSE),
       Client("LG_Smart_Dryer", "", "1c:39:29:00:00:12", "192.168.1.13", FALSE),
       [Client("Office-Desktop", "", "aa:bb:cc:00:00:13", "192.168.1.14", TRUE)
            EXCEPT !.sw_mac = "70:a7:41:00:00:01", !.sw_port = 3,
                   !.tx_bytes = GiB, !.rx_bytes = 2 * GiB, !.uptime = 3600],
       Client("Patio TV Camera", "", "aa:bb:cc:00:00:14", "192.168.1.15", FALSE),
       Client("hue-bridge", "", "04:99:b9:00:00:15", "192.168.1.16", TRUE) >>

SampleSet == { SampleClients[i] : i \in DOMAIN SampleClients }

\* Lists of at most MaxShort distinct sample clients.
ShortLists ==
    UNION { { s \in [1..n -> SampleSet] : \A i, j \in 1..n : i # j => s[i] # s[j] }
            : n \in 0..MaxShort }

Pad2(k) == IF k < 10 THEN "0" \o ToString(k) ELSE ToString(k)

\* The k-th of a run of clients of one kind: switches, NAS boxes, or wireless
\* sensors that no rule classifies.
RunClient(kind, k) ==
    CASE kind = "switch" ->
           Client("switch-" \o ToString(k), "", "70:a7:41:00:01:" \o Pad2(k), "192.168.2.1", TRUE)
      [] kind = "nas" ->
           Client("nas-" \o ToString(k), "", "00:11:32:00:02:" \o Pad2(k), "192.168.3.1", TRUE)
      [] OTHER ->
           [Client("", "esp-" \o ToString(k), "aa:bb:cc:00:03:" \o Pad2(k), "192.168.4.1", FALSE)
                EXCEPT !.signal = -65, !.tx_bytes = GiB, !.uptime = 3600,
                       !.essid = "Home"]

RunKinds == {"switch", "nas", "esp"}

\* A run of MaxRun clients of one kind, then at most one sample client.
LongLists ==
    { [k \in 1..MaxRun |-> RunClient(kind, k)] \o tail :
        kind \in RunKinds,
        tail \in {<<>>} \cup { <<SampleClients[i]>> : i \in {2, 7, 8} } }

ClientLists == ShortLists \cup LongLists

\* Every client record with a mac that occurs in some input list.
InputClients ==
    { c \in SampleSet \cup { RunClient(kind, k) : kind \in RunKinds, k \in 1..MaxRun } :
        c.mac # Undefined }

\* classifyDevice(client), computed once for each input client.
classification == [c \in InputClients |-> classifyDevice(c)]

\* What api.getDevices() may return: the LocalDevice records.
DeviceLists ==
    { <<>>, << [mac |-> "70:a7:41:00:00:01", name |-> "USW-Switch-24", model |-> "US24"] >> }

-----------------------------------------------------------------------------
(* The report of a pass.                                                   *)

Range(seq) == { seq[i] : i \in DOMAIN seq }

\* The entries counted with the unclassified ones left out.
AllDevices_OrganizedOnly(org, uncl) == org

\* allDevices = [...Object.values(organized).flat(), ...unclassified]; only
\* counts are taken of it, so the order of the entries is not kept.
AllDevices(org, uncl) == org \o uncl

\* The summary and metadata of the OrganizationReport, with the two lists.
BuildReport(cl, org, uncl) ==
    LET allDevices == AllDevices(org, uncl)
        byCategory ==
            [ cat \in { e.classification : e \in Range(org) } |->
                Len(SelectSeq(org, LAMBDA e : e.classification = cat)) ]
        byConnectionType ==
            [ wired |-> Len(SelectSeq(allDevices, LAMBDA d : d.connectionType = "Wired")),
              wifi |-> Len(SelectSeq(allDevices, LAMBDA d : d.connectionType = "WiFi")) ]
        byManufacturer ==
            [ m \in { d.manufacturer : d \in Range(allDevices) } |->
                Len(SelectSeq(allDevices, LAMBDA d : d.manufacturer = m)) ]
    IN  [ metadata |-> [ totalDevices |-> Len(cl),
                         autoClassified |-> Len(org),
                         needsReview |-> Len(uncl) ],
          organized |-> org,
          unclassified |-> uncl,
          summary |-> [ byCategory |-> byCategory,
                        byConnectionType |-> byConnectionType,
                        byManufacturer |-> byManufacturer ] ]

\* No report: no pass has returned yet.
NoReport == BuildReport(<<>>, <<>>, <<>>)

-----------------------------------------------------------------------------
(* UniFiSDK: the network overview and its analysis.                        *)

\* Nothing returned yet by getNetworkOverview / analyzeNetwork.
NoOverview == [source |-> "none", sites |-> <<>>]
NoAnalysis == [healthScore |-> 100, recommendations |-> <<>>, returned |-> FALSE]

\* site.statistics of the first site of the cloud overview: the fields
\* analyzeNetwork reads.  wanLatency is the number of WAN links whose wanIssues
\* hold a highLatency issue.
SiteStatistics ==
    [ ipsMode : {"disabled", "detection"},
      offlineDevice : 0..1,
      txRetry : {3, 7},
      wanLatency : 0..MaxWans,
      wifiClient : {3, 5, 6},
      wiredClient : {0, 2} ]

\* What the Cloud API may return as sites: none, or one site.
CloudSites == {<<>>} \cup { <<st>> : st \in SiteStatistics }

\* { id, severity, automated } of an OptimizationRecommendation.
Rec(id, severity, automated) == [id |-> id, severity |-> severity, automated |-> automated]

\* The recommendations pushed for the WAN links with a latency issue.
WanRecommendations(n) ==
    [k \in 1..n |-> Rec("wan-latency-WAN" \o ToString(k), "medium", FALSE)]

\* The recommendations analyzeNetwork builds from the overview, in the order
\* of its checks.
Recommendations(sites, hasLocal) ==
    IF Len(sites) = 0
    THEN <<>>
    ELSE LET stats == sites[1]
         IN  (IF stats.ipsMode = "disabled"
              THEN <<Rec("ips-disabled", "critical", hasLocal)>> ELSE <<>>)
             \o (IF stats.offlineDevice > 0
                 THEN <<Rec("offline-devices", "high", FALSE)>> ELSE <<>>)
             \o (IF stats.txRetry > 5
                 THEN <<Rec("high-retry-rate", "medium", hasLocal)>> ELSE <<>>)
             \o WanRecommendations(stats.wanLatency)
             \o (IF stats.wifiClient * 2
                      > 5 * (IF stats.wiredClient = 0 THEN 1 ELSE stats.wiredClient)
                 THEN <<Rec("client-distribution", "low", FALSE)>> ELSE <<>>)

\* recommendations.filter(r => r.severity === severity).length
SeverityCount(rs, severity) == Len(SelectSeq(rs, LAMBDA r : r.severity = severity))

\* The score without the Math.max(0, ...).
healthScore_Unclamped(rs) ==
    100 - SeverityCount(rs, "critical") * 30 - SeverityCount(rs, "high") * 15
        - SeverityCount(rs, "medium") * 5

\* const healthScore = Math.max(0, 100 - critical * 30 - high * 15 - medium * 5)
healthScore(rs) ==
    LET raw == 100 - SeverityCount(rs, "critical") * 30 - SeverityCount(rs, "high") * 15
                   - SeverityCount(rs, "medium") * 5
    IN  IF raw > 0 THEN raw ELSE 0

-----------------------------------------------------------------------------
(* UniFiLocalAPI: the session.                                             *)

\* this.cookie = undefined
NoCookie == 0

\* A client just constructed: no cookie, no CSRF token, no call in progress.
\* A cookie is named by the number of the login that set it; logouts is the
\* number of logins made when the last logout completed; carried is the
\* Cookie header of the request in flight.
NoSession ==
    [ cookie |-> NoCookie, csrfToken |-> FALSE, call |-> "none", at |-> "idle",
      sends |-> 0, relogins |-> 0, logins |-> 0, logouts |-> 0, carried |-> NoCookie,
      outcome |-> "none" ]

\* What the controller may answer to a request.
Responses == {"ok", "unauthorized", "error"}

\* login(), after a 2xx answer: the cookie is replaced only when the answer
\* has a set-cookie header, the CSRF token only when the body holds one.
LoggedIn(s, setCookie, csrf) ==
    [s EXCEPT !.logins = @ + 1,
              !.cookie = IF setCookie THEN s.logins + 1 ELSE @,
              !.csrfToken = IF csrf THEN TRUE ELSE @]

\* fetch(url, { headers: { Cookie: this.cookie!, ... } })
Send(s) == [s EXCEPT !.at = "fetch", !.sends = @ + 1, !.carried = s.cookie]

\* The call in progress ends, with its result or with the error it throws.
End(s, outcome) == [s EXCEPT !.at = "idle", !.call = "none", !.outcome = outcome]

-----------------------------------------------------------------------------
(* IPOrganizer: two calls of organizeDevicesByType in progress.            *)

\* The locals of a call that has not been made.
NotRunning ==
    [ at |-> "idle", clients |-> <<>>, dryRun |-> TRUE, idx |-> 1, devices |-> <<>>,
      ipCounters |-> InitialIpCounters, organized |-> <<>>, unclassified |-> <<>> ]

Passes == {1, 2}

NoneRunning == [p \in Passes |-> NotRunning]

-----------------------------------------------------------------------------
(* State.                                                                  *)

Init ==
    /\ op = "none"
    /\ pc = "idle"
    /\ clients = <<>>
    /\ dryRun = TRUE
    /\ idx = 1
    /\ devices = <<>>
    /\ ipCounters = InitialIpCounters
    /\ organized = <<>>
    /\ unclassified = <<>>
    /\ commits = <<>>
    /\ reservations = <<>>
    /\ error = "none"
    /\ cliDryRun = TRUE
    /\ cliOutput = "none"
    /\ localConfigured \in BOOLEAN
    /\ recs = <<>>
    /\ results = <<>>
    /\ writes = <<>>
    /\ report = NoReport
    /\ prevReport = NoReport
    /\ passes = 0
    /\ cloudConfigured = FALSE
    /\ overview = NoOverview
    /\ analysis = NoAnalysis
    /\ session = NoSession
    /\ running = NoneRunning

\* organized[type] of the code: the entries of one category, in push order.
\* organized holds the entries of all categories in the order they were pushed.
OrganizedOf(type) == SelectSeq(organized, LAMBDA e : e.classification = type)

Throw(what) ==
    /\ pc' = "threw"
    /\ error' = what

-----------------------------------------------------------------------------
(* IPOrganizer.organizeDevicesByType                                        *)

\* The guard with dryRun ignored.
ShouldApply_Always(d) == TRUE

\* if (!dryRun)
ShouldApply(d) == ~d

\* The push left out.
PushUnclassified_Dropped(list, info) == list

\* unclassified.push(deviceInfo)
PushUnclassified(list, info) == Append(list, info)

\* The counters of the earlier call carried over.
StartCounters_Kept(previous) == previous

\* const ipCounters = { ... }: a new object for each call, whatever an
\* earlier call left.
StartCounters(previous) == InitialIpCounters

\* A reservation request that leaves the address out.
createDHCPReservation_NoIp(mac, ip, hostname) ==
    [method |-> "PUT", mac |-> mac, fixed_ip |-> NoIp, name |-> hostname]

\* createDHCPReservation(mac, ip, hostname): the PUT on rest/user/${mac} with
\* body { fixed_ip: ip, name: hostname, use_fixedip: true }.
createDHCPReservation(mac, ip, hostname) ==
    [method |-> "PUT", mac |-> mac, fixed_ip |-> ip, name |-> hostname]

\* An entry for an unclassified client that takes the identifier's guess as
\* its classification.
UnclassifiedEntry_GuessAsCategory(client, devs) ==
    buildEnhancedDeviceInfo(client, devs, NoIp,
                            identifyUnknownDevice(client, getParentDevice(client, devs).device))

\* const deviceInfo = this.buildEnhancedDeviceInfo(client, devices): no
\* assignedIp and no classification are passed.
UnclassifiedEntry(client, devs) == buildEnhancedDeviceInfo(client, devs, NoIp, Undefined)

\* ipCounters[type]++
BumpCounter(counters, type) == [counters EXCEPT ![type] = @ + 1]

\* A direct call organizeDevicesByType(clients, dryRun) on an IPOrganizer
\* built over the Local API.
CallOrganize ==
    /\ pc = "idle"
    /\ localConfigured
    /\ \E cl \in ClientLists, d \in BOOLEAN :
          /\ clients' = cl
          /\ dryRun' = d
    /\ op' = "organize"
    /\ pc' = "devices"
    /\ ipCounters' = StartCounters(ipCounters)
    /\ passes' = 1
    /\ UNCHANGED <<idx, devices, organized, unclassified, commits, reservations,
                   error, cliVars, applyVars, report, prevReport, sdkVars, sessionVars,
                   concurrentVars>>

\* A further call with the same arguments on the same IPOrganizer, after the
\* earlier one has returned: organized, unclassified and ipCounters are new
\* locals of the call, this.devices is the organizer's.
CallOrganizeAgain ==
    /\ op = "organize"
    /\ pc = "returned"
    /\ passes < MaxPasses
    /\ pc' = "devices"
    /\ organized' = <<>>
    /\ unclassified' = <<>>
    /\ ipCounters' = StartCounters(ipCounters)
    /\ prevReport' = report
    /\ passes' = passes + 1
    /\ idx' = 1
    /\ UNCHANGED <<op, clients, dryRun, devices, commits, reservations, error,
                   cliVars, applyVars, report, sdkVars, sessionVars,
                   concurrentVars>>

\* getCurrentDevices(): the device list is fetched when none is cached.
DevicesFetched ==
    /\ pc = "devices"
    /\ IF Len(devices) = 0
       THEN \E ds \in DeviceLists : devices' = ds
       ELSE UNCHANGED devices
    /\ pc' = "loop"
    /\ idx' = 1
    /\ UNCHANGED <<op, clients, dryRun, ipCounters, organized, unclassified, commits,
                   reservations, error, cliVars, applyVars, reportVars, sdkVars, sessionVars,
                   concurrentVars>>

\* api.getDevices() rejects: the pass rejects before its loop.
DevicesFetchFails ==
    /\ pc = "devices"
    /\ Len(devices) = 0
    /\ Throw("FetchFailure")
    /\ UNCHANGED <<op, organizerVars, dryRun, idx, cliVars, applyVars, sdkVars, sessionVars,
                   concurrentVars>>

\* classifyDevice(client) on a record without mac: client.mac.toLowerCase()
\* throws a TypeError, which nothing in the pass catches.
ClassifyThrows ==
    /\ pc = "loop"
    /\ idx <= Len(clients)
    /\ clients[idx].mac = Undefined
    /\ Throw("TypeError")
    /\ UNCHANGED <<op, organizerVars, dryRun, idx, cliVars, applyVars, sdkVars, sessionVars,
                   concurrentVars>>

\* One iteration for a client that classifyDevice places in a category.
OrganizeClient ==
    /\ pc = "loop"
    /\ idx <= Len(clients)
    /\ clients[idx].mac # Undefined
    /\ classification[clients[idx]] # null
    /\ LET client == clients[idx]
           type == classification[client].type
           assignedIp == AssignedIpFor(type, ipCounters[type])
           deviceInfo == buildEnhancedDeviceInfo(client, devices, assignedIp, type)
       IN  IF assignedIp = NoIp
           THEN \* default: continue
                /\ idx' = idx + 1
                /\ UNCHANGED <<pc, ipCounters, organized, commits>>
           ELSE /\ ipCounters' = BumpCounter(ipCounters, type)
                /\ organized' = Append(organized, deviceInfo)
                /\ IF ShouldApply(dryRun)
                   THEN \* await this.createDHCPReservation(mac, assignedIp, name)
                        /\ commits' = Append(commits,
                               createDHCPReservation(client.mac, assignedIp,
                                                     OrElse(client.name, client.hostname)))
                        /\ pc' = "commit"
                        /\ UNCHANGED idx
                   ELSE /\ idx' = idx + 1
                        /\ UNCHANGED <<pc, commits>>
    /\ UNCHANGED <<op, clients, dryRun, devices, unclassified, reservations, error,
                   cliVars, applyVars, reportVars, sdkVars, sessionVars,
                   concurrentVars>>

\* One iteration for a client that classifyDevice returns null for.
UnclassifiedClient ==
    /\ pc = "loop"
    /\ idx <= Len(clients)
    /\ clients[idx].mac # Undefined
    /\ classification[clients[idx]] = null
    /\ unclassified' = PushUnclassified(unclassified, UnclassifiedEntry(clients[idx], devices))
    /\ idx' = idx + 1
    /\ UNCHANGED <<op, pc, clients, dryRun, devices, ipCounters, organized, commits,
                   reservations, error, cliVars, applyVars, reportVars, sdkVars, sessionVars,
                   concurrentVars>>

\* The PUT of createDHCPReservation is accepted: the loop goes on.
CommitOk ==
    /\ pc = "commit"
    /\ reservations' = Append(reservations, commits[Len(commits)])
    /\ pc' = "loop"
    /\ idx' = idx + 1
    /\ UNCHANGED <<op, clients, dryRun, devices, ipCounters, organized, unclassified,
                   commits, error, cliVars, applyVars, reportVars, sdkVars, sessionVars,
                   concurrentVars>>

\* The request of createDHCPReservation throws; the await in the loop throws
\* it on and organizeDevicesByType rejects.
CommitFails ==
    /\ pc = "commit"
    /\ Throw("CommitFailure")
    /\ UNCHANGED <<op, organizerVars, dryRun, idx, cliVars, applyVars, sdkVars, sessionVars,
                   concurrentVars>>

\* After the loop: the summary is computed and the report returned.
ReturnReport ==
    /\ pc = "loop"
    /\ idx > Len(clients)
    /\ pc' = "returned"
    /\ report' = BuildReport(clients, organized, unclassified)
    /\ UNCHANGED <<op, clients, devices, ipCounters, organized, unclassified, commits,
                   reservations, prevReport, passes, dryRun, idx, error, cliVars, applyVars, sdkVars, sessionVars,
                   concurrentVars>>

-----------------------------------------------------------------------------
(* cli.ts: the organize command.                                           *)

\* generateOrganizationPlan: organizeDevicesByType(clients, true)
PlanDryRun == TRUE

\* organize() without a Local API: process.exit(1).
CliOrganizeNoLocal ==
    /\ pc = "idle"
    /\ ~localConfigured
    /\ op' = "cli"
    /\ pc' = "exited"
    /\ cliOutput' = "Local API required"
    /\ \E flag \in BOOLEAN : cliDryRun' = flag
    /\ UNCHANGED <<organizerVars, dryRun, idx, error, applyVars, sdkVars, sessionVars,
                   concurrentVars>>

\* organize(): the clients are fetched and handed to generateOrganizationPlan,
\* which starts a pass.
CliOrganize ==
    /\ pc = "idle"
    /\ localConfigured
    /\ \E flag \in BOOLEAN : cliDryRun' = flag
    /\ \E cl \in ClientLists : clients' = cl
    /\ dryRun' = PlanDryRun
    /\ op' = "cli"
    /\ pc' = "devices"
    /\ ipCounters' = StartCounters(ipCounters)
    /\ passes' = 1
    /\ UNCHANGED <<idx, devices, organized, unclassified, commits, reservations,
                   error, cliOutput, applyVars, report, prevReport, sdkVars, sessionVars,
                   concurrentVars>>

\* organize(), after the plan is written: the closing message.
CliReport ==
    /\ op = "cli"
    /\ pc = "returned"
    /\ pc' = "reported"
    /\ cliOutput' = IF cliDryRun
                    THEN "Run without --dry-run to apply DHCP reservations"
                    ELSE "DHCP reservations created!"
    /\ UNCHANGED <<op, organizerVars, dryRun, idx, error, cliDryRun, applyVars, sdkVars,
                   sessionVars,
                   concurrentVars>>

\* organize().catch(console.error)
CliCatch ==
    /\ op = "cli"
    /\ pc = "threw"
    /\ cliOutput = "none"
    /\ cliOutput' = error
    /\ UNCHANGED <<op, pc, organizerVars, dryRun, idx, error, cliDryRun, applyVars, sdkVars,
                   sessionVars,
                   concurrentVars>>

-----------------------------------------------------------------------------
(* UniFiLocalAPI: the results of the write operations.                     *)

WriteOperations ==
    { "enableIPS", "updateDeviceRadioSettings", "enableBandSteering", "enableFastRoaming",
      "createVLAN", "rebootDevice" }

\* target and reversible of the ConfigurationChange each operation builds.
ChangeOf(operation) ==
    CASE operation = "enableIPS" -> [target |-> "IPS", reversible |-> TRUE]
      [] operation = "updateDeviceRadioSettings" ->
             [target |-> "Device ap1 radio ng", reversible |-> TRUE]
      [] operation = "enableBandSteering" -> [target |-> "WLAN w1", reversible |-> TRUE]
      [] operation = "enableFastRoaming" -> [target |-> "WLAN w1", reversible |-> TRUE]
      [] operation = "createVLAN" -> [target |-> "VLAN 20", reversible |-> TRUE]
      [] OTHER -> [target |-> "Device ap1", reversible |-> FALSE]

\* Whether the object the operation returns on success has a rollback.
ReturnsRollback(operation) == operation = "enableIPS"

\* return { success: true, change[, rollback] }
SuccessResult(operation) ==
    [ success |-> TRUE, target |-> ChangeOf(operation).target,
      reversible |-> ChangeOf(operation).reversible,
      rollback |-> ReturnsRollback(operation), error |-> "" ]

\* A catch that returns the failed result without the message.
FailureResult_NoError(operation, message) ==
    [ success |-> FALSE, target |-> ChangeOf(operation).target,
      reversible |-> ChangeOf(operation).reversible,
      rollback |-> FALSE, error |-> "" ]

\* catch (error) { return { success: false, change, error: error.message } }
FailureResult(operation, message) ==
    [ success |-> FALSE, target |-> ChangeOf(operation).target,
      reversible |-> ChangeOf(operation).reversible,
      rollback |-> FALSE, error |-> message ]

-----------------------------------------------------------------------------
(* UniFiSDK.applyOptimizations                                             *)

\* Recommendations as analyzeNetwork builds them, and one with an id that
\* applyOptimizations has no case for.
RecPool ==
    { Rec("ips-disabled", "critical", TRUE),
      Rec("ips-disabled", "critical", FALSE),
      Rec("high-retry-rate", "medium", TRUE),
      Rec("offline-devices", "high", FALSE),
      Rec("custom-tuning", "low", TRUE) }

RecLists == UNION { [1..n -> RecPool] : n \in 0..MaxRecs }

\* recommendations.filter(r => r.automated)
automated == SelectSeq(recs, LAMBDA r : r.automated)

\* applyOptimizations(recommendations, {dryRun}): throws without a Local API.
CallApply ==
    /\ pc = "idle"
    /\ \E rs \in RecLists, d \in BOOLEAN :
          /\ recs' = rs
          /\ dryRun' = d
    /\ op' = "apply"
    /\ idx' = 1
    /\ IF localConfigured
       THEN pc' = "applyLoop" /\ UNCHANGED error
       ELSE Throw("Local API required for configuration changes")
    /\ UNCHANGED <<organizerVars, cliVars, localConfigured, results, writes, sdkVars, sessionVars,
                   concurrentVars>>

\* if (options.dryRun) { log; continue }
ApplyDryRun ==
    /\ pc = "applyLoop"
    /\ idx <= Len(automated)
    /\ dryRun
    /\ idx' = idx + 1
    /\ UNCHANGED <<op, pc, organizerVars, dryRun, error, cliVars, applyVars, sdkVars, sessionVars,
                   concurrentVars>>

\* case 'ips-disabled': result = await this.local.enableIPS('detection')
ApplyEnableIPS ==
    /\ pc = "applyLoop"
    /\ idx <= Len(automated)
    /\ ~dryRun
    /\ automated[idx].id = "ips-disabled"
    /\ writes' = Append(writes, [call |-> "enableIPS", mode |-> "detection"])
    /\ pc' = "enableIPS"
    /\ UNCHANGED <<op, organizerVars, dryRun, idx, error, cliVars, localConfigured,
                   recs, results, sdkVars, sessionVars,
                   concurrentVars>>

\* enableIPS: the PUT succeeded.
EnableIPSOk ==
    /\ pc = "enableIPS"
    /\ results' = Append(results, SuccessResult("enableIPS"))
    /\ pc' = "applyLoop"
    /\ idx' = idx + 1
    /\ UNCHANGED <<op, organizerVars, dryRun, error, cliVars, localConfigured, recs, writes,
                   sdkVars, sessionVars,
                   concurrentVars>>

\* enableIPS: the PUT threw; the catch turns it into a failed result.
EnableIPSFails ==
    /\ pc = "enableIPS"
    /\ results' = Append(results, FailureResult("enableIPS", "Local API Error"))
    /\ pc' = "applyLoop"
    /\ idx' = idx + 1
    /\ UNCHANGED <<op, organizerVars, dryRun, error, cliVars, localConfigured, recs, writes,
                   sdkVars, sessionVars,
                   concurrentVars>>

\* case 'high-retry-rate': a failed result, no call.
ApplyRetryRate ==
    /\ pc = "applyLoop"
    /\ idx <= Len(automated)
    /\ ~dryRun
    /\ automated[idx].id = "high-retry-rate"
    /\ results' = Append(results, [success |-> FALSE, target |-> "All APs", reversible |-> TRUE,
                                   rollback |-> FALSE,
                                   error |-> "Requires device-specific implementation"])
    /\ idx' = idx + 1
    /\ UNCHANGED <<op, pc, organizerVars, dryRun, error, cliVars, localConfigured, recs,
                   writes, sdkVars, sessionVars,
                   concurrentVars>>

\* default: continue
ApplySkip ==
    /\ pc = "applyLoop"
    /\ idx <= Len(automated)
    /\ ~dryRun
    /\ automated[idx].id \notin {"ips-disabled", "high-retry-rate"}
    /\ idx' = idx + 1
    /\ UNCHANGED <<op, pc, organizerVars, dryRun, error, cliVars, applyVars, sdkVars, sessionVars,
                   concurrentVars>>

\* return results
ApplyReturn ==
    /\ pc = "applyLoop"
    /\ idx > Len(automated)
    /\ pc' = "returned"
    /\ UNCHANGED <<op, organizerVars, dryRun, idx, error, cliVars, applyVars, sdkVars, sessionVars,
                   concurrentVars>>

-----------------------------------------------------------------------------
(* UniFiSDK.getNetworkOverview and analyzeNetwork                          *)

\* getNetworkOverview(), called directly or by analyzeNetwork(): the Cloud
\* API is asked when it is configured, the Local API when only it is, and the
\* call throws when neither is.
CallOverview ==
    /\ pc = "idle"
    /\ \E o \in {"overview", "analyze"} : op' = o
    /\ IF cloudConfigured
       THEN pc' = "cloudFetch" /\ UNCHANGED error
       ELSE IF localConfigured
            THEN pc' = "localFetch" /\ UNCHANGED error
            ELSE Throw("No API configured")
    /\ UNCHANGED <<organizerVars, dryRun, idx, cliVars, applyVars, sdkVars, sessionVars,
                   concurrentVars>>

\* Promise.all of getHosts, getSites, getDevices resolves.
CloudFetchOk ==
    /\ pc = "cloudFetch"
    /\ \E sites \in CloudSites : overview' = [source |-> "cloud", sites |-> sites]
    /\ pc' = IF op = "analyze" THEN "analyzing" ELSE "returned"
    /\ UNCHANGED <<op, organizerVars, dryRun, idx, error, cliVars, applyVars,
                   cloudConfigured, analysis, sessionVars, concurrentVars>>

\* One of the Cloud API requests rejects: Promise.all rejects and the call
\* throws; the Local API is not asked.
CloudFetchFails ==
    /\ pc = "cloudFetch"
    /\ Throw("Cloud API Error")
    /\ UNCHANGED <<op, organizerVars, dryRun, idx, cliVars, applyVars, sdkVars, sessionVars,
                   concurrentVars>>

\* Promise.all of local.getDevices, local.getClients resolves.
LocalFetchOk ==
    /\ pc = "localFetch"
    /\ overview' = [source |-> "local", sites |-> <<>>]
    /\ pc' = IF op = "analyze" THEN "analyzing" ELSE "returned"
    /\ UNCHANGED <<op, organizerVars, dryRun, idx, error, cliVars, applyVars,
                   cloudConfigured, analysis, sessionVars, concurrentVars>>

LocalFetchFails ==
    /\ pc = "localFetch"
    /\ Throw("Local API Error")
    /\ UNCHANGED <<op, organizerVars, dryRun, idx, cliVars, applyVars, sdkVars, sessionVars,
                   concurrentVars>>

\* analyzeNetwork(), after the overview: the recommendations and the score.
Analyze ==
    /\ op = "analyze"
    /\ pc = "analyzing"
    /\ LET recommendations == Recommendations(overview.sites, localConfigured)
       IN  analysis' = [ healthScore |-> healthScore(recommendations),
                         recommendations |-> recommendations,
                         returned |-> TRUE ]
    /\ pc' = "returned"
    /\ UNCHANGED <<op, organizerVars, dryRun, idx, error, cliVars, applyVars,
                   cloudConfigured, overview, sessionVars, concurrentVars>>

-----------------------------------------------------------------------------
(* UniFiLocalAPI: the write operations, called one at a time.              *)

\* A write operation is called on the Local API client and sends its request.
CallWriteOperation ==
    /\ pc = "idle"
    /\ localConfigured
    /\ op' = "write"
    /\ pc' = "writing"
    /\ \E operation \in WriteOperations : writes' = Append(writes, [call |-> operation])
    /\ UNCHANGED <<organizerVars, dryRun, idx, error, cliVars, localConfigured, recs,
                   results, sdkVars, sessionVars,
                   concurrentVars>>

\* this.request resolves: the operation returns its successful result.
WriteOperationOk ==
    /\ pc = "writing"
    /\ results' = Append(results, SuccessResult(writes[Len(writes)].call))
    /\ pc' = "returned"
    /\ UNCHANGED <<op, organizerVars, dryRun, idx, error, cliVars, localConfigured, recs,
                   writes, sdkVars, sessionVars,
                   concurrentVars>>

\* this.request throws: the catch of the operation returns a failed result.
WriteOperationFails ==
    /\ pc = "writing"
    /\ results' = Append(results, FailureResult(writes[Len(writes)].call, "Local API Error"))
    /\ pc' = "returned"
    /\ UNCHANGED <<op, organizerVars, dryRun, idx, error, cliVars, localConfigured, recs,
                   writes, sdkVars, sessionVars,
                   concurrentVars>>

-----------------------------------------------------------------------------
(* IPOrganizer: two interleaved calls of organizeDevicesByType.            *)

\* Two clients of one category and one that no rule classifies.
InterleavedPool == { RunClient("nas", 1), RunClient("nas", 2), RunClient("esp", 1) }

InterleavedLists ==
    UNION { { l \in [1..n -> InterleavedPool] : \A i, j \in 1..n : i # j => l[i] # l[j] }
            : n \in 1..MaxInterleaved }

otherThanRunning ==
    <<op, pc, clients, dryRun, idx, ipCounters, organized, unclassified, error, reportVars,
      cliVars, applyVars, sdkVars, sessionVars>>

\* One counter object for the organizer, read by every call.
PassCounters_OfOrganizer(p) == running[1].ipCounters

\* const ipCounters = { ... }: the object of the call itself.
PassCounters(p) == running[p].ipCounters

\* organizeDevicesByType(clients, dryRun) is called and runs up to the await
\* in getCurrentDevices; with a cached list it goes on to its loop with
\* this.devices.
PassCall(p) ==
    /\ running[p].at = "idle"
    /\ localConfigured
    /\ \E cl \in InterleavedLists, d \in BOOLEAN :
          running' = [running EXCEPT ![p] =
              [NotRunning EXCEPT !.clients = cl, !.dryRun = d, !.devices = devices,
                                 !.at = IF Len(devices) = 0 THEN "devices" ELSE "loop"]]
    /\ UNCHANGED <<otherThanRunning, devices, commits, reservations>>

\* this.devices = await this.api.getDevices(); return this.devices
PassDevicesFetched(p) ==
    /\ running[p].at = "devices"
    /\ \E ds \in DeviceLists :
          /\ devices' = ds
          /\ running' = [running EXCEPT ![p].devices = ds, ![p].at = "loop"]
    /\ UNCHANGED <<otherThanRunning, commits, reservations>>

\* api.getDevices() rejects.
PassFetchFails(p) ==
    /\ running[p].at = "devices"
    /\ running' = [running EXCEPT ![p].at = "threw"]
    /\ UNCHANGED <<otherThanRunning, devices, commits, reservations>>

\* One iteration of the loop of call p for a classified client, up to the
\* await of createDHCPReservation when the call applies its changes.
PassOrganizeClient(p) ==
    LET r == running[p]
    IN  /\ r.at = "loop"
        /\ r.idx <= Len(r.clients)
        /\ classification[r.clients[r.idx]] # null
        /\ LET client == r.clients[r.idx]
               type == classification[client].type
               assignedIp == AssignedIpFor(type, PassCounters(p)[type])
               deviceInfo == buildEnhancedDeviceInfo(client, r.devices, assignedIp, type)
               next == [r EXCEPT !.ipCounters = BumpCounter(PassCounters(p), type),
                                 !.organized = Append(@, deviceInfo)]
           IN  IF ShouldApply(r.dryRun)
               THEN /\ commits' = Append(commits,
                            createDHCPReservation(client.mac, assignedIp,
                                                  OrElse(client.name, client.hostname)))
                    /\ running' = [running EXCEPT ![p] = [next EXCEPT !.at = "commit"]]
               ELSE /\ running' = [running EXCEPT ![p] = [next EXCEPT !.idx = @ + 1]]
                    /\ UNCHANGED commits
        /\ UNCHANGED <<otherThanRunning, devices, reservations>>

\* One iteration of the loop of call p for a client classifyDevice returns
\* null for.
PassUnclassifiedClient(p) ==
    LET r == running[p]
    IN  /\ r.at = "loop"
        /\ r.idx <= Len(r.clients)
        /\ classification[r.clients[r.idx]] = null
        /\ running' = [running EXCEPT
               ![p].unclassified = PushUnclassified(@, UnclassifiedEntry(r.clients[r.idx],
                                                                        r.devices)),
               ![p].idx = @ + 1]
        /\ UNCHANGED <<otherThanRunning, devices, commits, reservations>>

\* The PUT awaited by call p is accepted.
PassCommitOk(p) ==
    LET r == running[p]
        client == r.clients[r.idx]
    IN  /\ r.at = "commit"
        /\ reservations' = Append(reservations,
               createDHCPReservation(client.mac, r.organized[Len(r.organized)].assignedIp,
                                     OrElse(client.name, client.hostname)))
        /\ running' = [running EXCEPT ![p].at = "loop", ![p].idx = @ + 1]
        /\ UNCHANGED <<otherThanRunning, devices, commits>>

\* The PUT awaited by call p is refused: the call rejects.
PassCommitFails(p) ==
    /\ running[p].at = "commit"
    /\ running' = [running EXCEPT ![p].at = "threw"]
    /\ UNCHANGED <<otherThanRunning, devices, commits, reservations>>

\* Call p returns its report.
PassReturn(p) ==
    /\ running[p].at = "loop"
    /\ running[p].idx > Len(running[p].clients)
    /\ running' = [running EXCEPT ![p].at = "returned"]
    /\ UNCHANGED <<otherThanRunning, devices, commits, reservations>>

-----------------------------------------------------------------------------
(* UniFiLocalAPI: request, login, logout.                                  *)

otherThanSession ==
    <<op, pc, organizerVars, dryRun, idx, error, cliVars, applyVars, sdkVars, concurrentVars>>

\* request(endpoint): if (!this.cookie) { await this.login() }, then the fetch.
EnterRequest(s) == IF s.cookie = NoCookie THEN [s EXCEPT !.at = "login"] ELSE Send(s)

\* A call of request (through getDevices, a write operation, ...) or of
\* logout, which is request('/api/auth/logout') and then the clearing.
CallRequest ==
    /\ session.at = "idle"
    /\ \E kind \in {"request", "logout"} :
          session' = EnterRequest([session EXCEPT !.call = kind, !.sends = 0, !.relogins = 0,
                                                  !.outcome = "none"])
    /\ UNCHANGED otherThanSession

\* A direct call of login().
CallLogin ==
    /\ session.at = "idle"
    /\ session' = [session EXCEPT !.call = "login", !.at = "login", !.sends = 0,
                                  !.relogins = 0, !.outcome = "none"]
    /\ UNCHANGED otherThanSession

\* The login is answered 2xx.  A direct login() returns; the login at the top
\* of request goes on to the fetch; the login after a 401 is followed by
\* return this.request(endpoint, options).
LoginOk ==
    /\ session.at \in {"login", "relogin"}
    /\ session.logins < MaxLogins
    /\ session.sends < MaxSends
    /\ \E setCookie \in BOOLEAN, csrf \in BOOLEAN :
          LET s == LoggedIn(session, setCookie, csrf)
          IN  session' = IF s.call = "login" THEN End(s, "ok")
                         ELSE IF s.at = "login" THEN Send(s)
                         ELSE EnterRequest(s)
    /\ UNCHANGED otherThanSession

\* throw new Error(`Login failed: ...`): the call in progress rejects.
LoginFails ==
    /\ session.at \in {"login", "relogin"}
    /\ session' = End(session, "Login failed")
    /\ UNCHANGED otherThanSession

\* The request is answered 2xx; a logout then clears cookie and csrfToken.
FetchOk ==
    /\ session.at = "fetch"
    /\ session' = IF session.call = "logout"
                  THEN End([session EXCEPT !.cookie = NoCookie, !.csrfToken = FALSE,
                                           !.logouts = session.logins], "logged out")
                  ELSE End(session, "ok")
    /\ UNCHANGED otherThanSession

\* The request is answered 401: await this.login() comes next.
FetchUnauthorized ==
    /\ session.at = "fetch"
    /\ session' = [session EXCEPT !.at = "relogin", !.relogins = @ + 1]
    /\ UNCHANGED otherThanSession

\* Another status: throw new Error(`Local API Error [...]`).
FetchError ==
    /\ session.at = "fetch"
    /\ session' = End(session, "Local API Error")
    /\ UNCHANGED otherThanSession

-----------------------------------------------------------------------------
(* The specification.                                                      *)

Next ==
    \/ CallOrganize
    \/ CallOrganizeAgain
    \/ DevicesFetched
    \/ DevicesFetchFails
    \/ ClassifyThrows
    \/ OrganizeClient
    \/ UnclassifiedClient
    \/ CommitOk
    \/ CommitFails
    \/ ReturnReport
    \/ CliOrganizeNoLocal
    \/ CliOrganize
    \/ CliReport
    \/ CliCatch
    \/ CallApply
    \/ ApplyDryRun
    \/ ApplyEnableIPS
    \/ EnableIPSOk
    \/ EnableIPSFails
    \/ ApplyRetryRate
    \/ ApplySkip
    \/ ApplyReturn

Spec == Init /\ [][Next]_vars

\* The operations of UniFiSDK and of its Local API client, for any
\* configuration of the two APIs.
InitSdk ==
    /\ op = "none"
    /\ pc = "idle"
    /\ clients = <<>>
    /\ dryRun = TRUE
    /\ idx = 1
    /\ devices = <<>>
    /\ ipCounters = InitialIpCounters
    /\ organized = <<>>
    /\ unclassified = <<>>
    /\ commits = <<>>
    /\ reservations = <<>>
    /\ error = "none"
    /\ cliDryRun = TRUE
    /\ cliOutput = "none"
    /\ localConfigured \in BOOLEAN
    /\ recs = <<>>
    /\ results = <<>>
    /\ writes = <<>>
    /\ report = NoReport
    /\ prevReport = NoReport
    /\ passes = 0
    /\ cloudConfigured \in BOOLEAN
    /\ overview = NoOverview
    /\ analysis = NoAnalysis
    /\ session = NoSession
    /\ running = NoneRunning

NextSdk ==
    \/ CallOverview
    \/ CloudFetchOk
    \/ CloudFetchFails
    \/ LocalFetchOk
    \/ LocalFetchFails
    \/ Analyze
    \/ CallApply
    \/ ApplyDryRun
    \/ ApplyEnableIPS
    \/ EnableIPSOk
    \/ EnableIPSFails
    \/ ApplyRetryRate
    \/ ApplySkip
    \/ ApplyReturn
    \/ CallWriteOperation
    \/ WriteOperationOk
    \/ WriteOperationFails

SpecSdk == InitSdk /\ [][NextSdk]_vars

\* The calls on one UniFiLocalAPI client, one at a time, against a controller
\* that may give any answer.
NextSession ==
    \/ CallRequest
    \/ CallLogin
    \/ LoginOk
    \/ LoginFails
    \/ FetchOk
    \/ FetchUnauthorized
    \/ FetchError

SpecSession == Init /\ [][NextSession]_vars

\* Two calls of organizeDevicesByType on one IPOrganizer, each running from
\* one await to the next while the other is suspended.
NextConcurrent ==
    \/ \E p \in Passes : PassCall(p)
    \/ \E p \in Passes : PassDevicesFetched(p)
    \/ \E p \in Passes : PassFetchFails(p)
    \/ \E p \in Passes : PassOrganizeClient(p)
    \/ \E p \in Passes : PassUnclassifiedClient(p)
    \/ \E p \in Passes : PassCommitOk(p)
    \/ \E p \in Passes : PassCommitFails(p)
    \/ \E p \in Passes : PassReturn(p)

SpecConcurrent == Init /\ [][NextConcurrent]_vars

-----------------------------------------------------------------------------
(* The earlier IPOrganizer, which allocates by scanning the category's     *)
(* range for the first address not yet in organized (getNextAvailableIP).  *)

V1Rule(type, rangeStart, rangeEnd) ==
    [type |-> type, rangeStart |-> rangeStart, rangeEnd |-> rangeEnd]

V1null == V1Rule("null", NoIp, NoIp)

\* The if / else-if chain on name of organizeDevicesByType: the category and
\* the range handed to getNextAvailableIP.
V1Classify(client) ==
    LET name == toLowerCase(OrElse(client.name, OrElse(client.hostname, "")))
    IN  IF anyIncludes(name, {"switch", "ap-"}) THEN
            V1Rule("Infrastructure", <<10, 0, 0, 1>>, <<10, 0, 0, 50>>)
        ELSE IF anyIncludes(name, {"nas", "server", "plex"}) THEN
            V1Rule("Servers", <<10, 0, 0, 51>>, <<10, 0, 0, 100>>)
        ELSE IF anyIncludes(name, {"desktop", "pc-", "imac"}) THEN
            V1Rule("Computers", <<10, 0, 0, 101>>, <<10, 0, 0, 150>>)
        ELSE IF anyIncludes(name, {"macbook", "laptop", "ipad"}) THEN
            V1Rule("Laptops & Tablets", <<10, 0, 0, 151>>, <<10, 0, 0, 200>>)
        ELSE IF anyIncludes(name, {"iphone", "phone", "android"}) THEN
            V1Rule("Phones", <<10, 0, 0, 201>>, <<10, 0, 0, 250>>)
        ELSE IF anyIncludes(name, {"appletv", "roku", "tv", "sonos", "playstation", "xbox"}) THEN
            V1Rule("Media Devices", <<10, 0, 1, 1>>, <<10, 0, 1, 100>>)
        ELSE IF anyIncludes(name, {"hue", "nest", "ecobee", "homekit"}) THEN
            V1Rule("IoT - Trusted", <<10, 0, 2, 1>>, <<10, 0, 2, 100>>)
        ELSE IF anyIncludes(name, {"camera", "doorbell"}) THEN
            V1Rule("Security Cameras", <<10, 0, 4, 1>>, <<10, 0, 4, 100>>)
        ELSE V1null

\* V1Classify(client), computed once for each input client.
V1classification == [c \in InputClients |-> V1Classify(c)]

\* getNextAvailableIP(rangeStart, rangeEnd, existing): the lowest address of
\* the range that no entry of existing holds; NoIp stands for the throw of
\* Error('No available IPs in range ...').
getNextAvailableIP(rangeStart, rangeEnd, existing) ==
    LET assigned == { existing[i].assignedIp : i \in DOMAIN existing }
        startNum == ipToNum(rangeStart)
        endNum == ipToNum(rangeEnd)
        free == { num \in startNum..endNum : numToIp(num) \notin assigned }
    IN  IF free = {}
        THEN NoIp
        ELSE numToIp(CHOOSE num \in free : \A other \in free : num <= other)

V1CallOrganize ==
    /\ pc = "idle"
    /\ localConfigured
    /\ \E cl \in ClientLists, d \in BOOLEAN :
          /\ clients' = cl
          /\ dryRun' = d
    /\ op' = "organize"
    /\ pc' = "loop"
    /\ idx' = 1
    /\ UNCHANGED <<devices, ipCounters, organized, unclassified, commits, reservations,
                   error, cliVars, applyVars, reportVars, sdkVars, sessionVars,
                   concurrentVars>>

\* const mac = client.mac.toLowerCase() on a record without mac.
V1MacThrows ==
    /\ pc = "loop"
    /\ idx <= Len(clients)
    /\ clients[idx].mac = Undefined
    /\ Throw("TypeError")
    /\ UNCHANGED <<op, organizerVars, dryRun, idx, cliVars, applyVars, sdkVars, sessionVars,
                   concurrentVars>>

\* getNextAvailableIP finds the range full and throws; nothing catches it.
V1AllocationThrows ==
    /\ pc = "loop"
    /\ idx <= Len(clients)
    /\ clients[idx].mac # Undefined
    /\ V1classification[clients[idx]] # V1null
    /\ LET rule == V1classification[clients[idx]]
       IN  getNextAvailableIP(rule.rangeStart, rule.rangeEnd, organized) = NoIp
    /\ Throw("No available IPs in range")
    /\ UNCHANGED <<op, organizerVars, dryRun, idx, cliVars, applyVars, sdkVars, sessionVars,
                   concurrentVars>>

V1OrganizeClient ==
    /\ pc = "loop"
    /\ idx <= Len(clients)
    /\ clients[idx].mac # Undefined
    /\ V1classification[clients[idx]] # V1null
    /\ LET client == clients[idx]
           rule == V1classification[client]
           assignedIp == getNextAvailableIP(rule.rangeStart, rule.rangeEnd, organized)
       IN  /\ assignedIp # NoIp
           /\ organized' = Append(organized,
                  [mac |-> client.mac, currentIp |-> client.ip,
                   assignedIp |-> assignedIp, type |-> rule.type])
           /\ IF ShouldApply(dryRun)
              THEN /\ commits' = Append(commits,
                          [method |-> "PUT", mac |-> client.mac, fixed_ip |-> assignedIp,
                           name |-> OrElse(client.name, client.hostname)])
                   /\ pc' = "commit"
                   /\ UNCHANGED idx
              ELSE /\ idx' = idx + 1
                   /\ UNCHANGED <<pc, commits>>
    /\ UNCHANGED <<op, clients, dryRun, devices, ipCounters, unclassified, reservations,
                   error, cliVars, applyVars, reportVars, sdkVars, sessionVars,
                   concurrentVars>>

\* unclassified.push(client)
V1UnclassifiedClient ==
    /\ pc = "loop"
    /\ idx <= Len(clients)
    /\ clients[idx].mac # Undefined
    /\ V1classification[clients[idx]] = V1null
    /\ unclassified' = Append(unclassified, clients[idx])
    /\ idx' = idx + 1
    /\ UNCHANGED <<op, pc, clients, dryRun, devices, ipCounters, organized, commits,
                   reservations, error, cliVars, applyVars, reportVars, sdkVars, sessionVars,
                   concurrentVars>>

\* return { organized, unclassified }
V1Return ==
    /\ pc = "loop"
    /\ idx > Len(clients)
    /\ pc' = "returned"
    /\ UNCHANGED <<op, organizerVars, dryRun, idx, error, cliVars, applyVars, sdkVars, sessionVars,
                   concurrentVars>>

NextV1 ==
    \/ V1CallOrganize
    \/ V1MacThrows
    \/ V1AllocationThrows
    \/ V1OrganizeClient
    \/ V1UnclassifiedClient
    \/ CommitOk
    \/ CommitFails
    \/ V1Return

SpecV1 == Init /\ [][NextV1]_vars

-----------------------------------------------------------------------------
(* Properties.                                                             *)

\* The pass has returned its report (and the CLI may have printed it).
Returned == op \in {"organize", "cli"} /\ pc \in {"returned", "reported"}

\* The clients the loop has finished with.
Processed == IF op \in {"organize", "cli"} /\ pc \in {"loop", "commit", "returned", "reported", "threw"}
             THEN 1..(idx - 1)
             ELSE {}

RangeSize(category) ==
    ipToNum(SchemeOf(category).end) - ipToNum(SchemeOf(category).start) + 1

InRange(ip, category) ==
    /\ ipToNum(SchemeOf(category).start) <= ipToNum(ip)
    /\ ipToNum(ip) <= ipToNum(SchemeOf(category).end)

\* C1: Uniqueness.  In one pass no two organized entries carry the same
\* assignedIp, whatever the length of the list and the mix of categories.
C1_Uniqueness ==
    \A i, j \in DOMAIN organized :
        i # j => organized[i].assignedIp # organized[j].assignedIp

\* C2: Range containment.  The assignedIp of every organized entry lies in the
\* [start, end] range the scheme reserves for the entry's category.
C2_RangeContainment ==
    \A i \in DOMAIN organized :
        InRange(organized[i].assignedIp, organized[i].classification)

\* C3: Partition.  Once the pass has returned, every input client is in
\* exactly one of organized and unclassified (the code has no third output for
\* rejected records), and the two lists together are as long as the input.
C3_Partition ==
    Returned =>
        /\ \A i \in DOMAIN clients :
              Cardinality({ j \in DOMAIN organized : organized[j].mac = clients[i].mac })
            + Cardinality({ j \in DOMAIN unclassified : unclassified[j].mac = clients[i].mac })
            = 1
        /\ Len(organized) + Len(unclassified) = Len(clients)

C3_Witness ==
    /\ Returned
    /\ Len(organized) > 0
    /\ Len(unclassified) > 0

\* C4: Exhaustion.  Of the clients that classify into a category whose range
\* holds N addresses, only the first N are given an address, the k-th of them
\* the k-th address of the range; the next one is not organized.
C4_Exhaustion ==
    \A c \in Categories :
        /\ Len(OrganizedOf(c)) <= RangeSize(c)
        /\ \A k \in DOMAIN OrganizedOf(c) :
              ipToNum(OrganizedOf(c)[k].assignedIp) = ipToNum(SchemeOf(c).start) + k - 1

\* C5: An exhausted range is a per-client error: an allocation that fails for
\* one client does not make the pass throw; the later clients are processed.
C5_ExhaustionIsPerClient ==
    ~(pc = "threw" /\ error = "No available IPs in range")

\* C6: A reservation commit that fails is recorded against its entry and the
\* pass goes on: a commit failure never makes organizeDevicesByType throw.
C6_CommitFailureDoesNotAbort ==
    ~(pc = "threw" /\ error = "CommitFailure")

\* A dotted-quad string: digits and dots only.
WellFormedIp(s) ==
    /\ s # Undefined
    /\ Len(s) > 0
    /\ \A i \in 1..Len(s) : \E d \in 1..11 : CharAt("0123456789.", d) = CharAt(s, i)

Malformed(client) == client.mac = Undefined \/ ~WellFormedIp(client.ip)

\* C7: A malformed record (no MAC, unparseable IP) is left out of the pass and
\* the pass never throws on it: no malformed client becomes an organized or
\* unclassified entry, and no TypeError ends the pass.
C7_MalformedIsolated ==
    /\ ~(pc = "threw" /\ error = "TypeError")
    /\ \A i \in Processed :
          Malformed(clients[i]) =>
              /\ \A j \in DOMAIN organized : organized[j].mac # clients[i].mac
              /\ \A j \in DOMAIN unclassified : unclassified[j].mac # clients[i].mac

\* C8: Dry run makes no change.  A pass with dryRun = true issues no
\* reservation commit, and applyOptimizations with dryRun = true invokes no
\* Local API write operation and, when it returns, returns an empty list.
C8_DryRunNoChange ==
    dryRun =>
        /\ commits = <<>>
        /\ reservations = <<>>
        /\ writes = <<>>
        /\ (op = "apply" /\ pc = "returned" => results = <<>>)

C8_Witness ==
    /\ op = "organize"
    /\ dryRun
    /\ pc = "returned"
    /\ Len(organized) = Len(clients)
    /\ Len(clients) >= MaxShort

\* C9: Once the organize command, run without --dry-run, has printed that the
\* reservations were created, a PUT keyed by the client's MAC and carrying the
\* assigned IP has been accepted for every auto-classified device.
C9_ReservationsBeforeReport ==
    cliOutput = "DHCP reservations created!" =>
        \A i \in DOMAIN organized :
            \E j \in DOMAIN reservations :
                /\ reservations[j].method = "PUT"
                /\ reservations[j].mac = organized[i].mac
                /\ reservations[j].fixed_ip = organized[i].assignedIp

\* The client an entry was built from.
ClientOf(entry) == CHOOSE c \in Range(clients) : c.mac = entry.mac

\* The category of the MAC-prefix rule a client matches ("null" if none):
\* what the name and MAC rules give once the client has no name.
MacRuleType(client) ==
    classifyByNameOrMac([client EXCEPT !.name = "", !.hostname = ""]).type

\* The client matches an OS-based rule and a MAC-prefix rule of another category.
OsAndMacDisagree(client) ==
    /\ classifyByOs(client) # null
    /\ MacRuleType(client) \notin {"null", classifyByOs(client).type}

\* OsAndMacDisagree and the OS-based category, computed once for each input client.
osAndMacDisagree == [c \in InputClients |-> OsAndMacDisagree(c)]
osRuleType == [c \in InputClients |-> classifyByOs(c).type]

\* C10: Priority tie-break.  A client that matches an OS-based rule and a
\* MAC-prefix rule of a different category is classified by the OS-based rule.
C10_OsRuleWins ==
    \A e \in Range(organized) \cup Range(unclassified) :
        osAndMacDisagree[ClientOf(e)] =>
            e.classification = osRuleType[ClientOf(e)]

C10_Witness ==
    \E e \in Range(organized) :
        /\ osAndMacDisagree[ClientOf(e)]
        /\ toLowerCase(ClientOf(e).mac) # ClientOf(e).mac

-----------------------------------------------------------------------------
(* Classification priority and tiering.                                    *)

\* Every { type, priority } whose rule has a condition the client satisfies:
\* the OS-based rule, if one applies, and the name/MAC rules.
MatchingRules(client) ==
    (IF classifyByOs(client) # null THEN {classifyByOs(client)} ELSE {})
    \cup { [type |-> NameMacRules[i].type, priority |-> NameMacRules[i].priority] :
             i \in { j \in DOMAIN NameMacRules :
                       \/ RuleMatchesName(NameMacRules[j], DisplayName(client))
                       \/ RuleMatchesMac(NameMacRules[j], toLowerCase(client.mac)) } }

\* The matching rule with the highest declared priority, null if none matches.
HighestPriorityMatch(client) ==
    IF MatchingRules(client) = {}
    THEN null
    ELSE CHOOSE r \in MatchingRules(client) :
             \A o \in MatchingRules(client) : o.priority <= r.priority

highestPriorityMatch == [c \in InputClients |-> HighestPriorityMatch(c)]

\* C11: Of the rules a client matches, the one with the highest declared
\* priority decides: for every client the pass has classified, what
\* classifyDevice returned is the matching rule of highest priority.
C11_HighestPriorityWins ==
    \A i \in Processed :
        clients[i].mac # Undefined =>
            classification[clients[i]] = highestPriorityMatch[clients[i]]

\* The categories of the rules whose name keywords the client's name matches,
\* and of the rules whose MAC prefixes its MAC matches.
NameRuleTypes(client) ==
    { NameMacRules[i].type :
        i \in { j \in DOMAIN NameMacRules :
                  RuleMatchesName(NameMacRules[j], DisplayName(client)) } }

MacRuleTypes(client) ==
    { NameMacRules[i].type :
        i \in { j \in DOMAIN NameMacRules :
                  RuleMatchesMac(NameMacRules[j], toLowerCase(client.mac)) } }

\* A client without OS metadata whose name matches a name-keyword rule and
\* whose MAC matches a MAC-prefix rule of another category.
NameAndMacDisagree(client) ==
    /\ OrElse(client.os_name, "") = ""
    /\ NameRuleTypes(client) # {}
    /\ MacRuleTypes(client) \ NameRuleTypes(client) # {}

nameAndMacDisagree == [c \in InputClients |-> NameAndMacDisagree(c)]
nameRuleTypes == [c \in InputClients |-> NameRuleTypes(c)]

\* C12: Tiering.  A client without OS metadata whose name matches a
\* name-keyword rule and whose MAC matches a MAC-prefix rule of another
\* category is given the category of a name-keyword rule it matches.
C12_NameTierBeforeMacTier ==
    \A i \in Processed :
        (clients[i].mac # Undefined /\ nameAndMacDisagree[clients[i]]) =>
            classification[clients[i]].type \in nameRuleTypes[clients[i]]

\* The client of the nas-backup scenario.
IsNasBackup(client) ==
    /\ client.name = "nas-backup"
    /\ client.mac = "20:f8:3b:aa:bb:cc"
    /\ client.is_wired
    /\ client.os_name = ""

\* C13: A wired client named "nas-backup" with MAC 20:f8:3b:aa:bb:cc and no
\* OS metadata is classified as Servers: once the pass has processed it, it is
\* an organized entry of category Servers.
C13_NasBackupIsServer ==
    \A i \in Processed :
        IsNasBackup(clients[i]) =>
            \E e \in Range(organized) :
                /\ e.mac = clients[i].mac
                /\ e.classification = "Servers"

C13_Witness ==
    \E e \in Range(organized) :
        /\ e.mac = "20:f8:3b:aa:bb:cc"
        /\ e.name = "nas-backup"
        /\ e.connectionType = "Wired"
        /\ e.classification = "Servers"

-----------------------------------------------------------------------------
(* Allocation order.                                                       *)

\* The addresses of a category's range that are not in issued.
FreeIn(category, issued) ==
    { num \in ipToNum(SchemeOf(category).start)..ipToNum(SchemeOf(category).end) :
        numToIp(num) \notin issued }

\* C14: Sequential allocation that skips issued addresses.  The entry the
\* pass has just added holds the lowest address of its category's range that
\* no earlier entry of the pass holds.  (Every entry is the last one in the
\* state that follows its iteration, so this speaks of every entry.)
C14_SequentialAllocation ==
    organized # <<>> =>
        LET last == organized[Len(organized)]
            issued == { organized[i].assignedIp : i \in 1..(Len(organized) - 1) }
            free == FreeIn(last.classification, issued)
        IN  /\ free # {}
            /\ \A num \in free : ipToNum(last.assignedIp) <= num
            /\ ipToNum(last.assignedIp) \in free

-----------------------------------------------------------------------------
(* Manufacturer lookup and identification.                                 *)

\* The keys of the manufacturers table.
ManufacturerPrefixes ==
    { "5c:47:5e", "ac:9f:c3", "04:99:b9", "18:b4:30", "1c:39:29", "b0:09:da", "80:7d:3a",
      "0c:95:05", "d8:bf:c0", "ac:bc:b5", "e0:2b:96", "d4:90:9c", "c4:29:96", "c8:dd:6a",
      "64:db:a0", "20:f8:3b", "70:a7:41", "5a:6c:0b", "56:de:ac", "b2:c1:dd", "cc:6a:10",
      "00:11:32", "90:09:d0" }

\* The entries the pass has added last to its two lists.
LastEntries ==
    (IF organized # <<>> THEN {organized[Len(organized)]} ELSE {})
    \cup (IF unclassified # <<>> THEN {unclassified[Len(unclassified)]} ELSE {})

\* For each input client: whether the lower-cased first three octets of its
\* MAC are a key of the table, and what the lookup gives for the lower-cased MAC.
prefixInTable ==
    [c \in InputClients |-> toLowerCase(substring0(c.mac, 8)) \in ManufacturerPrefixes]
manufacturerOfLowerCased ==
    [c \in InputClients |-> lookupManufacturer(toLowerCase(c.mac))]

EntriesOf(r) == Range(r.organized) \cup Range(r.unclassified)

\* C16: identify and lookupManufacturer are pure.  An entry built for a
\* client record carries the same likelyIdentity and the same manufacturer as
\* the entry an earlier pass on the same IPOrganizer built for that record.
C16_IdentificationIsPure ==
    passes >= 2 =>
        \A e \in Range(organized) \cup Range(unclassified) :
            \A f \in EntriesOf(prevReport) :
                e.mac = f.mac =>
                    /\ e.likelyIdentity = f.likelyIdentity
                    /\ e.manufacturer = f.manufacturer

\* C17: The ranked chain of identify.  A client whose MAC prefix is in the
\* manufacturer table gets the manufacturer-based hint, whatever its other
\* fields are.
C17_ManufacturerHintFirst ==
    \A e \in Range(organized) \cup Range(unclassified) :
        e.manufacturer # "Unknown" =>
            e.likelyIdentity = ManufacturerHint(e.manufacturer)

\* C18: In a pass over 51 unclassified wireless clients with a signal of -65
\* dBm each, the identify result of every unclassified entry contains "Fair".
C18_FairSignalQualifier ==
    (/\ Len(unclassified) = 51
     /\ \A e \in Range(unclassified) :
           e.connectionType = "WiFi" /\ e.signalStrength = -65)
    => \A e \in Range(unclassified) : includes(e.likelyIdentity, "Fair")

-----------------------------------------------------------------------------
(* The summary, and passes that follow one another.                        *)

RECURSIVE SumOf(_)
\* The sum of the values of a function with a finite domain.
SumOf(f) ==
    IF DOMAIN f = {}
    THEN 0
    ELSE LET k == CHOOSE x \in DOMAIN f : TRUE
         IN  f[k] + SumOf([x \in DOMAIN f \ {k} |-> f[x]])

\* C19: The summary of a returned report agrees with its entries: byCategory
\* counts the organized entries of each category, wired + wifi and the sum of
\* byManufacturer equal the number of input clients, and autoClassified +
\* needsReview equals totalDevices.
C19_SummaryConsistent ==
    Returned =>
        /\ \A c \in Categories :
              IF c \in DOMAIN report.summary.byCategory
              THEN report.summary.byCategory[c] = Len(OrganizedOf(c))
              ELSE Len(OrganizedOf(c)) = 0
        /\ DOMAIN report.summary.byCategory \subseteq Categories
        /\ report.summary.byConnectionType.wired + report.summary.byConnectionType.wifi
             = Len(clients)
        /\ SumOf(report.summary.byManufacturer) = Len(clients)
        /\ report.metadata.autoClassified + report.metadata.needsReview
             = report.metadata.totalDevices
        /\ report.metadata.totalDevices = Len(clients)

C19_Witness ==
    /\ Returned
    /\ report.metadata.autoClassified > 0
    /\ report.metadata.needsReview > 0
    /\ report.summary.byConnectionType.wired > 0
    /\ report.summary.byConnectionType.wifi > 0

\* C20: Each call is a fresh pass.  A call that follows another on the same
\* IPOrganizer with the same client list returns, for every client, the
\* category and the assignedIp the earlier call returned.
C20_FreshPass ==
    (op = "organize" /\ pc = "returned" /\ passes >= 2) =>
        /\ Len(report.organized) = Len(prevReport.organized)
        /\ Len(report.unclassified) = Len(prevReport.unclassified)
        /\ \A i \in DOMAIN report.organized :
              /\ report.organized[i].mac = prevReport.organized[i].mac
              /\ report.organized[i].classification = prevReport.organized[i].classification
              /\ report.organized[i].assignedIp = prevReport.organized[i].assignedIp
        /\ \A i \in DOMAIN report.unclassified :
              report.unclassified[i].mac = prevReport.unclassified[i].mac

C20_Witness ==
    /\ op = "organize"
    /\ pc = "returned"
    /\ passes >= 2
    /\ Len(report.organized) >= 2
    /\ Len(clients) > MaxShort

-----------------------------------------------------------------------------
(* UniFiSDK and the Local API write operations.                            *)

\* The number of recommendations of one severity, counted over the indices.
NumberOf(rs, severity) == Cardinality({ i \in 1..Len(rs) : rs[i].severity = severity })

\* The recommendations without the low-severity ones.
WithoutLow(rs) == SelectSeq(rs, LAMBDA r : r.severity # "low")

\* C21: the healthScore analyzeNetwork returns is an integer of 0..100, equals
\* max(0, 100 - 30*critical - 15*high - 5*medium) over the recommendations it
\* returns, and is the score of the same recommendations without the
\* low-severity ones.
C21_HealthScore ==
    analysis.returned =>
        LET rs == analysis.recommendations
            raw == 100 - 30 * NumberOf(rs, "critical") - 15 * NumberOf(rs, "high")
                       - 5 * NumberOf(rs, "medium")
        IN  /\ analysis.healthScore \in 0..100
            /\ analysis.healthScore = (IF raw < 0 THEN 0 ELSE raw)
            /\ analysis.healthScore = healthScore(WithoutLow(rs))

\* An analysis whose penalties exceed 100 and that holds a low-severity
\* recommendation has returned.
C21_Witness ==
    /\ analysis.returned
    /\ analysis.healthScore = 0
    /\ 30 * NumberOf(analysis.recommendations, "critical")
         + 15 * NumberOf(analysis.recommendations, "high")
         + 5 * NumberOf(analysis.recommendations, "medium") > 100
    /\ NumberOf(analysis.recommendations, "low") > 0

\* C22: every successful result of a write operation whose change is marked
\* reversible carries a rollback.
C22_ReversibleHasRollback ==
    \A i \in 1..Len(results) :
        (results[i].success /\ results[i].reversible) => results[i].rollback

\* The ids analyzeNetwork marks automated when a Local API is configured.
AutomatedIds == {"ips-disabled", "high-retry-rate"}

\* A non-dry-run applyOptimizations over recommendations of analyzeNetwork
\* has returned and no request was refused by the controller.
AcceptedApply ==
    /\ op = "apply"
    /\ pc = "returned"
    /\ ~dryRun
    /\ \A i \in 1..Len(automated) : automated[i].id \in AutomatedIds
    /\ \A i \in 1..Len(results) : results[i].error # "Local API Error"

\* C23: with an accepting controller, a non-dry-run applyOptimizations returns
\* one successful result for each automated recommendation.
C23_EveryAutomatedApplied ==
    AcceptedApply =>
        /\ Len(results) = Len(automated)
        /\ \A i \in 1..Len(results) : results[i].success

\* C24: getNetworkOverview falls back to the Local API when the Cloud API is
\* not available, and throws 'No API configured' only when neither is
\* configured: a call ended by a Cloud API failure has no Local API.
C24_FallsBackToLocal ==
    (op \in {"overview", "analyze"} /\ pc = "threw") =>
        /\ error = "No API configured" => (~cloudConfigured /\ ~localConfigured)
        /\ error = "Cloud API Error" => ~localConfigured

\* The automated recommendations applyOptimizations has a case for.
Handled == SelectSeq(automated, LAMBDA r : r.id \in AutomatedIds)

\* C29: no write operation throws: a failed request gives a result with
\* success false and an error message, and applyOptimizations with a Local
\* API records it and returns one result for each recommendation it handles.
C29_FailureNeverAborts ==
    /\ op = "write" => pc \in {"writing", "returned"}
    /\ (op = "write" /\ pc = "returned") =>
           /\ Len(results) = 1
           /\ ChangeOf(writes[1].call).target = results[1].target
    /\ op \in {"write", "apply"} =>
           \A i \in 1..Len(results) : ~results[i].success => results[i].error # ""
    /\ (op = "apply" /\ localConfigured) => pc # "threw"
    /\ (op = "apply" /\ pc = "returned" /\ ~dryRun) => Len(results) = Len(Handled)

\* An apply run whose first change failed went on to a second recommendation,
\* and a directly called write operation has failed.
C29_Witness ==
    \/ /\ op = "apply"
       /\ pc = "returned"
       /\ Len(results) >= 2
       /\ results[1].error = "Local API Error"
    \/ /\ op = "write"
       /\ pc = "returned"
       /\ ~results[1].success
       /\ writes[1].call = "createVLAN"

-----------------------------------------------------------------------------
(* The commits of a pass and the unclassified entries.                     *)

\* A pass of organizeDevicesByType that applies its changes is past its fetch.
ApplyingPass == op = "organize" /\ ~dryRun /\ pc \in {"loop", "commit", "returned", "threw"}

\* The number of clients of the list that a complete pass organizes.
OrganizedCount(cl) ==
    Cardinality({ i \in 1..Len(cl) :
        /\ cl[i].mac # Undefined
        /\ classification[cl[i]] # null
        /\ AssignedIpFor(classification[cl[i]].type, 1) # NoIp })

\* The commits issued by the earlier passes of the organizer, which all
\* returned and were given the same list.
EarlierCommits == (passes - 1) * OrganizedCount(clients)

\* The clients the loop has taken so far: the one whose commit is awaited
\* (or has failed) included.
TakenClients ==
    SubSeq(clients, 1,
           IF pc = "commit" \/ (pc = "threw" /\ error = "CommitFailure") THEN idx ELSE idx - 1)

\* The clients taken so far that classifyDevice places, in input order.
PlacedClients ==
    SelectSeq(TakenClients,
              LAMBDA c : /\ classification[c] # null
                         /\ AssignedIpFor(classification[c].type, 1) # NoIp)

\* C26: in a pass that applies its changes, the j-th commit of the pass is a
\* PUT for the j-th organized entry with its MAC and assigned IP, the entries
\* follow the input order, and a commit is outstanding only while the loop
\* waits for it (or after it failed and ended the pass): the counters are read
\* for the next client with no commit outstanding.
C26_SerializedCommits ==
    ApplyingPass =>
        /\ Len(commits) = EarlierCommits + Len(organized)
        /\ \A j \in 1..Len(organized) :
               /\ commits[EarlierCommits + j].mac = organized[j].mac
               /\ commits[EarlierCommits + j].fixed_ip = organized[j].assignedIp
               /\ commits[EarlierCommits + j].method = "PUT"
        /\ Len(PlacedClients) = Len(organized)
        /\ \A j \in 1..Len(organized) : PlacedClients[j].mac = organized[j].mac
        /\ Len(commits) - Len(reservations) \in {0, 1}
        /\ pc \in {"loop", "returned"} => Len(commits) = Len(reservations)
        /\ pc = "commit" => Len(commits) = Len(reservations) + 1

\* A second commit of a pass is being awaited after the first completed.
C26_Witness ==
    /\ ApplyingPass
    /\ pc = "commit"
    /\ Len(organized) >= 2
    /\ Len(reservations) = Len(commits) - 1
    /\ organized[1].mac # organized[2].mac

\* The organized entries of one category.
EntriesIn(category) == SelectSeq(organized, LAMBDA e : e.classification = category)

\* C28: an unclassified entry has no assignedIp and no classification, no
\* commit is issued for its client, and the counters have advanced by the
\* organized entries only.
C28_GuessIsNoClassification ==
    (op \in {"organize", "cli"}) =>
        /\ \A i \in 1..Len(unclassified) :
               /\ unclassified[i].assignedIp = NoIp
               /\ unclassified[i].classification = Undefined
               /\ unclassified[i].classificationPriority = 0
               /\ \A j \in 1..Len(commits) : commits[j].mac # unclassified[i].mac
        /\ \A category \in DOMAIN ipCounters :
               ipCounters[category] = InitialIpCounters[category] + Len(EntriesIn(category))

\* A pass that applies its changes has committed a reservation and holds an
\* unclassified entry for which the identifier made a guess.
C28_Witness ==
    /\ op = "organize"
    /\ ~dryRun
    /\ Len(commits) > 0
    /\ Len(unclassified) > 0
    /\ unclassified[1].likelyIdentity \notin {Undefined, "Unknown Device"}

-----------------------------------------------------------------------------
(* The session of the Local API client.                                    *)

\* C27: one call of request makes at most one re-login and sends the request
\* at most twice.
C27_RetriesOnce ==
    session.call \in {"request", "logout"} =>
        /\ session.relogins <= 1
        /\ session.sends <= 2

\* C30: a request in flight carries a cookie that a login set after the last
\* logout, and a completed logout leaves neither cookie nor CSRF token.
C30_SessionInvariant ==
    /\ session.at = "fetch" =>
           /\ session.carried # NoCookie
           /\ session.carried > session.logouts
    /\ session.outcome = "logged out" =>
           /\ session.cookie = NoCookie
           /\ ~session.csrfToken

-----------------------------------------------------------------------------
(* Interleaved passes.                                                     *)

\* Category and address of an entry.
Placement(e) == [mac |-> e.mac, classification |-> e.classification, assignedIp |-> e.assignedIp]

\* The placements of a pass over the first n clients of a list when it runs
\* alone: the k-th client of a category gets the k-th address from the start
\* of the category.
RECURSIVE AlonePlacements(_, _)
AlonePlacements(cl, n) ==
    IF n = 0
    THEN <<>>
    ELSE LET before == AlonePlacements(cl, n - 1)
             c == classification[cl[n]]
             taken == Len(SelectSeq(before, LAMBDA e : e.classification = c.type))
         IN  IF c = null
             THEN before
             ELSE Append(before,
                         [mac |-> cl[n].mac, classification |-> c.type,
                          assignedIp |-> AssignedIpFor(c.type, InitialIpCounters[c.type] + taken)])

\* The clients of call p that its loop has taken.
TakenBy(p) ==
    IF running[p].at = "commit" \/ (running[p].at = "threw" /\ running[p].idx <= Len(running[p].clients)
                                     /\ Len(running[p].organized) > 0
                                     /\ running[p].organized[Len(running[p].organized)].mac
                                            = running[p].clients[running[p].idx].mac)
    THEN running[p].idx
    ELSE running[p].idx - 1

\* C25: whatever the interleaving, the organized entries of each call carry
\* the categories and addresses the call gives when it runs alone, and its
\* counters have advanced by its own entries only.
C25_PassesDoNotInterfere ==
    \A p \in Passes :
        /\ [j \in 1..Len(running[p].organized) |-> Placement(running[p].organized[j])]
               = AlonePlacements(running[p].clients, TakenBy(p))
        /\ \A category \in DOMAIN InitialIpCounters :
               running[p].ipCounters[category]
                   = InitialIpCounters[category]
                     + Len(SelectSeq(running[p].organized,
                                     LAMBDA e : e.classification = category))
        /\ running[p].at = "returned" =>
               Len(running[p].organized) + Len(running[p].unclassified) = Len(running[p].clients)

\* Both calls have returned after their commits alternated: each organized two
\* clients of one category, and the first two commits carry the same address.
C25_Witness ==
    /\ \A p \in Passes :
           /\ running[p].at = "returned"
           /\ ~running[p].dryRun
           /\ Len(running[p].organized) = 2
    /\ Len(commits) = 4
    /\ commits[1].fixed_ip = commits[2].fixed_ip
    /\ commits[3].fixed_ip = commits[4].fixed_ip

=============================================================================
